---------------------------- MODULE Spec2Model ----------------------------
(***************************************************************************)
(* Model of boids_pygame.py: the Flock simulation (Boid, Obstacle, Flock)  *)
(* and the keyboard handlers of main().                                    *)
(*                                                                         *)
(* Numbers.  The program computes with floats.  Here every length,         *)
(* coordinate, speed and force is a fixed-point integer: the real value    *)
(* times Scale (1.0 is 100).  The three rule weights are kept in tenths    *)
(* (the step of their key handlers).  A division rounds toward zero and a  *)
(* length used as a divisor is rounded up, so scale_to_length and          *)
(* normalize never lengthen a vector; comparisons of a length with a       *)
(* bound are made on the squares and are exact.  The last-bit rounding of  *)
(* floats is not represented.                                              *)
(***************************************************************************)
EXTENDS Integers, Sequences, FiniteSets, TLC

VARIABLES
    boids,              \* Flock.boids: sequence of Boid records
    obstacles,          \* Flock.obstacles: sequence of Obstacle records
    separation_weight,  \* tenths
    alignment_weight,   \* tenths
    cohesion_weight,    \* tenths
    perception_radius,  \* world units
    avoidance_radius,   \* world units
    crashed,            \* an uncaught ValueError left Flock.step (the program ended)
    \* history of the last Flock.step, kept until the next event is handled:
    start,              \* boids, obstacles and parameters when it began
    seen,               \* seen[j] = what boid j read when its force was computed
    done,               \* number of boids Boid.update ran for
    stepsLeft,          \* exploration budget: calls of Flock.step still explored
    keysLeft,           \* exploration budget: KEYDOWN events still explored
    probe               \* result of the last direct call of Flock.separation

vars == <<boids, obstacles, separation_weight, alignment_weight, cohesion_weight,
          perception_radius, avoidance_radius, crashed, start, seen, done,
          stepsLeft, keysLeft, probe>>

params == <<separation_weight, alignment_weight, cohesion_weight,
            perception_radius, avoidance_radius>>

----------------------------------------------------------------------------
(* Program constants (in world units) and the fixed-point resolution.      *)

WIDTH == 1000
HEIGHT == 700
MAX_SPEED == 4
LEADER_COUNT == 2
ORBIT_RADIUS == 200
OBSTACLE_BUFFER == 40
RADIUS_STEP == 5
RADIUS_FLOOR == 10
WEIGHT_FLOOR == 0
INIT_PERCEPTION == 60
INIT_AVOIDANCE == 40
INIT_SEPARATION_W == 15
INIT_ALIGNMENT_W == 10
INIT_COHESION_W == 10

Scale == 100
\* MAX_FORCE = 0.05
MAX_FORCE == (5 * Scale) \div 100
\* the 1.5 floor and the 4.0 ceiling of the density rule, and its 1/10 per neighbour
SPEED_FLOOR == (15 * Scale) \div 10
SPEED_CEIL == 4 * Scale
SPEED_PER_NEIGHBOUR == Scale \div 10

\* the clock readings pygame.time.get_ticks() / 1000 explored (whole seconds)
Times == {0, 1}

(* Bounds of the exploration. *)
NumBoids == 3
MaxTicks == 2
MaxKeys == 1
MaxTicksKeys == 1
MaxKeysKeys == 2

----------------------------------------------------------------------------
(* Fixed-point arithmetic on Vector2.                                      *)

Zero == <<0, 0>>

Abs(a) == IF a < 0 THEN -a ELSE a

Max(a, b) == IF a >= b THEN a ELSE b

\* a / b rounded toward zero (b > 0)
TDiv(a, b) == IF a >= 0 THEN a \div b ELSE -((-a) \div b)

\* a / b rounded up (a >= 0, b > 0)
CDiv(a, b) == (a + b - 1) \div b

VAdd(a, b) == <<a[1] + b[1], a[2] + b[2]>>

VSub(a, b) == <<a[1] - b[1], a[2] - b[2]>>

\* vec * k / d
VScale(v, k, d) == <<TDiv(v[1] * k, d), TDiv(v[2] * k, d)>>

Dot(a, b) == a[1] * b[1] + a[2] * b[2]

\* the components are small enough for the sum of their squares to be computed
Fits(v) == Abs(v[1]) <= 32767 /\ Abs(v[2]) <= 32767

LengthSquared(v) == v[1] * v[1] + v[2] * v[2]

RECURSIVE CeilSqrtIn(_, _, _)
\* the least r in lo..hi with r * r >= n
CeilSqrtIn(n, lo, hi) ==
    IF lo >= hi THEN lo
    ELSE LET mid == (lo + hi) \div 2
         IN  IF mid * mid >= n THEN CeilSqrtIn(n, lo, mid)
             ELSE CeilSqrtIn(n, mid + 1, hi)

CeilSqrt(n) == CeilSqrtIn(n, 0, 46340)

\* Vector2.length(), rounded up; a long vector is measured in units of 64
Length(v) ==
    IF Fits(v) THEN CeilSqrt(LengthSquared(v))
    ELSE 64 * CeilSqrt(LengthSquared(<<CDiv(Abs(v[1]), 64), CDiv(Abs(v[2]), 64)>>))

\* vec.length() > max_value, decided on the squares
LongerThan(v, m) == ~Fits(v) \/ LengthSquared(v) > m * m

\* a.distance_to(b) < r, decided on the squares (r in fixed point)
DistLess(a, b, r) ==
    LET d == VSub(a, b)
    IN  Abs(d[1]) < r /\ Abs(d[2]) < r /\ LengthSquared(d) < r * r

\* Vector2.scale_to_length(m)
ScaleToLength(v, m) == VScale(v, m, Length(v))

\* Vector2.normalize() raises ValueError on a vector of length zero
NormalizeRaises(v) == v = Zero

\* Vector2.normalize() of a non-zero vector: length 1.0 is Scale
Normalize(v) == IF v = Zero THEN Zero ELSE VScale(v, Scale, Length(v))

limit(vec, max_value) ==
    IF LongerThan(vec, max_value) THEN ScaleToLength(vec, max_value) ELSE vec

----------------------------------------------------------------------------
(* Boid.                                                                   *)
(* A boid is [pos, vel, acc, max_speed, leader, phase]; max_force is the   *)
(* same MAX_FORCE for every boid and never assigned again; phase is        *)
(* id(boid) % 5, fixed for the life of the object.                         *)

\* Boid.wrap with the two if statements for y left out
wrapXOnly(pos) ==
    LET x == IF pos[1] < 0 THEN pos[1] + WIDTH * Scale
             ELSE IF pos[1] > WIDTH * Scale THEN pos[1] - WIDTH * Scale
             ELSE pos[1]
    IN  <<x, pos[2]>>

wrap(pos) ==
    LET x == IF pos[1] < 0 THEN pos[1] + WIDTH * Scale
             ELSE IF pos[1] > WIDTH * Scale THEN pos[1] - WIDTH * Scale
             ELSE pos[1]
        y == IF pos[2] < 0 THEN pos[2] + HEIGHT * Scale
             ELSE IF pos[2] > HEIGHT * Scale THEN pos[2] - HEIGHT * Scale
             ELSE pos[2]
    IN  <<x, y>>

apply_force(b, force) == [b EXCEPT !.acc = VAdd(b.acc, force)]

\* Boid.update without the call of limit
updateUnlimited(b) ==
    LET vel == VAdd(b.vel, b.acc)
    IN  [b EXCEPT !.vel = vel, !.pos = wrap(VAdd(b.pos, vel)), !.acc = Zero]

update(b) ==
    LET vel == limit(VAdd(b.vel, b.acc), b.max_speed)
    IN  [b EXCEPT !.vel = vel, !.pos = wrap(VAdd(b.pos, vel)), !.acc = Zero]

----------------------------------------------------------------------------
(* Obstacle: [pos, radius, dynamic, vel].                                  *)

\* Obstacle.update testing only the lower edge of each axis
ObstacleUpdateLowerEdge(ob) ==
    IF ob.dynamic
    THEN LET pos == VAdd(ob.pos, ob.vel)
             vx == IF pos[1] < 0 THEN -ob.vel[1] ELSE ob.vel[1]
             vy == IF pos[2] < 0 THEN -ob.vel[2] ELSE ob.vel[2]
         IN  [ob EXCEPT !.pos = pos, !.vel = <<vx, vy>>]
    ELSE ob

ObstacleUpdate(ob) ==
    IF ob.dynamic
    THEN LET pos == VAdd(ob.pos, ob.vel)
             vx == IF pos[1] < 0 \/ pos[1] > WIDTH * Scale
                   THEN -ob.vel[1] ELSE ob.vel[1]
             vy == IF pos[2] < 0 \/ pos[2] > HEIGHT * Scale
                   THEN -ob.vel[2] ELSE ob.vel[2]
         IN  [ob EXCEPT !.pos = pos, !.vel = <<vx, vy>>]
    ELSE ob

----------------------------------------------------------------------------
(* Flock: the steering rules.  bs is Flock.boids, j the index of `boid`.   *)

\* Flock.get_neighbors without `other is not boid`
get_neighborsWithSelf(bs, j, pr) ==
    {i \in 1..Len(bs) : DistLess(bs[j].pos, bs[i].pos, pr * Scale)}

get_neighbors(bs, j, pr) ==
    {i \in 1..Len(bs) : i /= j /\ DistLess(bs[j].pos, bs[i].pos, pr * Scale)}

RECURSIVE SumOver(_, _, _)
\* the sum of f[i] over the indices i of S
SumOver(f, S, acc) ==
    IF S = {} THEN acc
    ELSE LET i == CHOOSE k \in S : \A m \in S : k <= m
         IN  SumOver(f, S \ {i}, VAdd(acc, f[i]))

\* the others at distance 0 < d < avoidance_radius
Close(bs, j, ar) ==
    {i \in 1..Len(bs) : bs[i].pos /= bs[j].pos
                        /\ DistLess(bs[j].pos, bs[i].pos, ar * Scale)}

\* Flock.separation with the difference taken as other.pos - boid.pos
separationReversed(bs, j, ar) ==
    LET diff == [i \in Close(bs, j, ar) |->
                    LET delta == VSub(bs[i].pos, bs[j].pos)
                    IN  VScale(Normalize(delta), Scale, Length(delta))]
        steer == SumOver(diff, Close(bs, j, ar), Zero)
    IN  IF steer /= Zero
        THEN VSub(VScale(Normalize(steer), bs[j].max_speed, Scale), bs[j].vel)
        ELSE steer

separation(bs, j, ar) ==
    LET diff == [i \in Close(bs, j, ar) |->
                    LET delta == VSub(bs[j].pos, bs[i].pos)
                    IN  VScale(Normalize(delta), Scale, Length(delta))]
        steer == SumOver(diff, Close(bs, j, ar), Zero)
    IN  IF steer /= Zero
        THEN VSub(VScale(Normalize(steer), bs[j].max_speed, Scale), bs[j].vel)
        ELSE steer

\* avg_vel is the sum divided by len(neighbors) > 0: the same direction as the
\* sum, and zero exactly when the sum is
AvgVelDir(bs, j, pr) ==
    SumOver([i \in 1..Len(bs) |-> bs[i].vel], get_neighbors(bs, j, pr), Zero)

alignmentRaises(bs, j, pr) ==
    get_neighbors(bs, j, pr) /= {} /\ NormalizeRaises(AvgVelDir(bs, j, pr))

alignment(bs, j, pr) ==
    IF get_neighbors(bs, j, pr) /= {}
    THEN VSub(VScale(Normalize(AvgVelDir(bs, j, pr)), bs[j].max_speed, Scale),
              bs[j].vel)
    ELSE Zero

\* center_mass - boid.pos is (sum of the neighbours' pos - n * boid.pos) / n
CenterDir(bs, j, pr) ==
    LET nb == get_neighbors(bs, j, pr)
        total == SumOver([i \in 1..Len(bs) |-> bs[i].pos], nb, Zero)
    IN  VSub(total, <<Cardinality(nb) * bs[j].pos[1], Cardinality(nb) * bs[j].pos[2]>>)

cohesionRaises(bs, j, pr) ==
    get_neighbors(bs, j, pr) /= {} /\ NormalizeRaises(CenterDir(bs, j, pr))

cohesion(bs, j, pr) ==
    IF get_neighbors(bs, j, pr) /= {}
    THEN VSub(VScale(Normalize(CenterDir(bs, j, pr)), bs[j].max_speed, Scale),
              bs[j].vel)
    ELSE Zero

\* the obstacles at distance d < ob.radius + 40
Near(bs, j, obs) ==
    {k \in 1..Len(obs) :
        DistLess(bs[j].pos, obs[k].pos, obs[k].radius + OBSTACLE_BUFFER * Scale)}

avoid_obstaclesRaises(bs, j, obs) ==
    \E k \in Near(bs, j, obs) : NormalizeRaises(VSub(bs[j].pos, obs[k].pos))

avoid_obstacles(bs, j, obs) ==
    LET diff == [k \in Near(bs, j, obs) |->
                    LET delta == VSub(bs[j].pos, obs[k].pos)
                    IN  VScale(Normalize(delta), Scale, Length(delta) + Scale)]
    IN  SumOver(diff, Near(bs, j, obs), Zero)

\* max(1.5, 4.0 - n / 10.0)
DensitySpeed(n) == Max(SPEED_FLOOR, SPEED_CEIL - n * SPEED_PER_NEIGHBOUR)

\* (math.cos(n), math.sin(n)) in ten-thousandths, n a whole number of radians
CosSin(n) ==
    CASE n = 0 -> <<10000, 0>>
      [] n = 1 -> <<5403, 8415>>
      [] n = 2 -> <<-4161, 9093>>
      [] n = 3 -> <<-9900, 1411>>
      [] n = 4 -> <<-6536, -7568>>
      [] n = 5 -> <<2837, -9589>>
      [] n = 6 -> <<9602, -2794>>
      [] n = 7 -> <<7539, 6570>>
      [] OTHER -> <<-1455, 9894>>

\* 200 * (cos n, sin n)
Orbit(n) == VScale(CosSin(n), ORBIT_RADIUS * Scale, 10000)

\* the leader's target at clock reading t (whole seconds)
Target(b, t) ==
    VAdd(<<(WIDTH * Scale) \div 2, (HEIGHT * Scale) \div 2>>, Orbit(t + b.phase))

LeaderRaises(b, t) == NormalizeRaises(VSub(Target(b, t), b.pos))

LeaderSteer(b, t) ==
    LET desired == VScale(Normalize(VSub(Target(b, t), b.pos)), b.max_speed, Scale)
    IN  limit(VSub(desired, b.vel), MAX_FORCE)

\* the weighted sum of the four rules, limited to max_force; P holds the five
\* parameters [sw, aw, cw, pr, ar]
TotalForce(bs, j, obs, P) ==
    LET sep   == VScale(separation(bs, j, P.ar), P.sw, 10)
        ali   == VScale(alignment(bs, j, P.pr), P.aw, 10)
        coh   == VScale(cohesion(bs, j, P.pr), P.cw, 10)
        avoid == VScale(avoid_obstacles(bs, j, obs), 2, 1)
    IN  limit(VAdd(VAdd(sep, ali), VAdd(coh, avoid)), MAX_FORCE)

\* whether the loop body of Flock.step raises ValueError for boid j
BodyRaises(bs, j, obs, t, P) ==
    IF bs[j].leader THEN LeaderRaises(bs[j], t)
    ELSE \/ alignmentRaises(bs, j, P.pr)
         \/ cohesionRaises(bs, j, P.pr)
         \/ avoid_obstaclesRaises(bs, j, obs)

\* the follower branch up to apply_force: the force is computed with the old
\* max_speed, then max_speed is set from the density
FollowerForced(bs, j, obs, P) ==
    LET force == TotalForce(bs, j, obs, P)
        speed == DensitySpeed(Cardinality(get_neighbors(bs, j, P.pr)))
    IN  apply_force([bs[j] EXCEPT !.max_speed = speed], force)

\* the loop body of Flock.step for boid j (when it does not raise)
Body(bs, j, obs, t, P) ==
    IF bs[j].leader THEN update(apply_force(bs[j], LeaderSteer(bs[j], t)))
    ELSE update(FollowerForced(bs, j, obs, P))

\* Flock.step with boid.update() moved to a second loop: every force is
\* computed from the flock as it was when the loop began
LoopDeferred(bs, sn, j, obs, t, P) ==
    IF \E k \in j..Len(bs) : BodyRaises(bs, k, obs, t, P)
    THEN [boids |-> bs, seen |-> sn, done |-> j - 1, crashed |-> TRUE]
    ELSE [boids |-> [k \in 1..Len(bs) |->
                        IF k >= j THEN Body(bs, k, obs, t, P) ELSE bs[k]],
          seen |-> sn \o [k \in 1..(Len(bs) - j + 1) |->
                             [boids |-> bs, obstacles |-> obs]],
          done |-> Len(bs), crashed |-> FALSE]

RECURSIVE Loop(_, _, _, _, _, _)
\* the loop over self.boids from index j on; sn collects what each boid read
Loop(bs, sn, j, obs, t, P) ==
    IF j > Len(bs) THEN [boids |-> bs, seen |-> sn, done |-> Len(bs), crashed |-> FALSE]
    ELSE IF BodyRaises(bs, j, obs, t, P)
         THEN [boids |-> bs, seen |-> sn, done |-> j - 1, crashed |-> TRUE]
         ELSE Loop([bs EXCEPT ![j] = Body(bs, j, obs, t, P)],
                   Append(sn, [boids |-> bs, obstacles |-> obs]), j + 1, obs, t, P)

\* the first loop of Flock.step: every obstacle is updated
UpdatedObstacles(obs) == [k \in 1..Len(obs) |-> ObstacleUpdate(obs[k])]

\* Flock.step at clock reading t
StepResult(bs, obs, t, P) == Loop(bs, <<>>, 1, UpdatedObstacles(obs), t, P)

Params ==
    [sw |-> separation_weight, aw |-> alignment_weight, cw |-> cohesion_weight,
     pr |-> perception_radius, ar |-> avoidance_radius]

----------------------------------------------------------------------------
(* Actions.                                                                *)

flock == <<boids, obstacles, crashed, stepsLeft, probe>>

\* one frame of main(): flock.step()
Step ==
    /\ ~crashed
    /\ stepsLeft > 0
    /\ \E t \in Times :
         LET r == StepResult(boids, obstacles, t, Params)
         IN  /\ boids' = r.boids
             /\ obstacles' = UpdatedObstacles(obstacles)
             /\ crashed' = r.crashed
             /\ seen' = r.seen
             /\ done' = r.done
    /\ start' = [boids |-> boids, obstacles |-> obstacles, params |-> Params]
    /\ stepsLeft' = stepsLeft - 1
    /\ UNCHANGED <<params, keysLeft, probe>>

\* a KEYDOWN event may be handled between two frames
KeyEnabled == ~crashed /\ keysLeft > 0

\* what a key handler leaves alone, and the bookkeeping of the exploration
KeyFrame ==
    /\ keysLeft' = keysLeft - 1
    /\ start' = [boids |-> boids, obstacles |-> obstacles,
                 params |-> [sw |-> separation_weight', aw |-> alignment_weight',
                             cw |-> cohesion_weight', pr |-> perception_radius',
                             ar |-> avoidance_radius']]
    /\ seen' = <<>>
    /\ done' = 0
    /\ UNCHANGED flock

Key1 ==
    /\ KeyEnabled
    /\ separation_weight' = separation_weight + 1
    /\ UNCHANGED <<alignment_weight, cohesion_weight, perception_radius, avoidance_radius>>
    /\ KeyFrame

\* the Q handler without max(0, ...)
KeyQUnclamped ==
    /\ KeyEnabled
    /\ separation_weight' = separation_weight - 1
    /\ UNCHANGED <<alignment_weight, cohesion_weight, perception_radius, avoidance_radius>>
    /\ KeyFrame

KeyQ ==
    /\ KeyEnabled
    /\ separation_weight' = Max(WEIGHT_FLOOR, separation_weight - 1)
    /\ UNCHANGED <<alignment_weight, cohesion_weight, perception_radius, avoidance_radius>>
    /\ KeyFrame

Key2 ==
    /\ KeyEnabled
    /\ alignment_weight' = alignment_weight + 1
    /\ UNCHANGED <<separation_weight, cohesion_weight, perception_radius, avoidance_radius>>
    /\ KeyFrame

KeyW ==
    /\ KeyEnabled
    /\ alignment_weight' = Max(WEIGHT_FLOOR, alignment_weight - 1)
    /\ UNCHANGED <<separation_weight, cohesion_weight, perception_radius, avoidance_radius>>
    /\ KeyFrame

Key3 ==
    /\ KeyEnabled
    /\ cohesion_weight' = cohesion_weight + 1
    /\ UNCHANGED <<separation_weight, alignment_weight, perception_radius, avoidance_radius>>
    /\ KeyFrame

KeyE ==
    /\ KeyEnabled
    /\ cohesion_weight' = Max(WEIGHT_FLOOR, cohesion_weight - 1)
    /\ UNCHANGED <<separation_weight, alignment_weight, perception_radius, avoidance_radius>>
    /\ KeyFrame

\* the 4 handler with = in place of +=
Key4Assigns ==
    /\ KeyEnabled
    /\ perception_radius' = RADIUS_STEP
    /\ UNCHANGED <<separation_weight, alignment_weight, cohesion_weight, avoidance_radius>>
    /\ KeyFrame

Key4 ==
    /\ KeyEnabled
    /\ perception_radius' = perception_radius + RADIUS_STEP
    /\ UNCHANGED <<separation_weight, alignment_weight, cohesion_weight, avoidance_radius>>
    /\ KeyFrame

KeyR ==
    /\ KeyEnabled
    /\ perception_radius' = Max(RADIUS_FLOOR, perception_radius - RADIUS_STEP)
    /\ UNCHANGED <<separation_weight, alignment_weight, cohesion_weight, avoidance_radius>>
    /\ KeyFrame

Key5 ==
    /\ KeyEnabled
    /\ avoidance_radius' = avoidance_radius + RADIUS_STEP
    /\ UNCHANGED <<separation_weight, alignment_weight, cohesion_weight, perception_radius>>
    /\ KeyFrame

KeyT ==
    /\ KeyEnabled
    /\ avoidance_radius' = Max(RADIUS_FLOOR, avoidance_radius - RADIUS_STEP)
    /\ UNCHANGED <<separation_weight, alignment_weight, cohesion_weight, perception_radius>>
    /\ KeyFrame

Next ==
    \/ Step
    \/ Key1 \/ KeyQ \/ Key2 \/ KeyW \/ Key3 \/ KeyE
    \/ Key4 \/ KeyR \/ Key5 \/ KeyT

----------------------------------------------------------------------------
(* Initial states.  A flock at a frame boundary: Flock.__init__ makes the  *)
(* first LEADER_COUNT boids leaders and the first obstacle dynamic; a boid *)
(* starts anywhere in the world with a unit velocity and gains at most     *)
(* max_force of speed per frame, an obstacle starts 100 units inside the   *)
(* world, so the states near max_speed and near an edge are those of later *)
(* frames.  Every state listed keeps |vel| <= max_speed, acc = 0 and the   *)
(* position inside the world.                                              *)

Boid(pos, vel, speed, leader, phase) ==
    [pos |-> pos, vel |-> vel, acc |-> Zero, max_speed |-> speed,
     leader |-> leader, phase |-> phase]

Obstacle(pos, radius, dynamic, vel) ==
    [pos |-> pos, radius |-> radius, dynamic |-> dynamic, vel |-> vel]

\* the states explored for the boid at index i
BoidStates(i) ==
    CASE i = 1 ->
           { Boid(<<70000, 35000>>, <<100, 0>>, MAX_SPEED * Scale, TRUE, 0),
             Boid(<<52000, 34000>>, <<100, 0>>, MAX_SPEED * Scale, TRUE, 0),
             Boid(<<99950, 35000>>, <<400, 0>>, MAX_SPEED * Scale, TRUE, 0) }
      [] i = 2 ->
           { Boid(<<53000, 34500>>, <<0, 100>>, MAX_SPEED * Scale, TRUE, 1),
             Boid(<<30000, 50>>, <<0, -400>>, MAX_SPEED * Scale, TRUE, 1) }
      [] i = 3 ->
           { Boid(<<99900, 10000>>, <<100, 0>>, SPEED_CEIL, FALSE, 0),
             Boid(<<52500, 35000>>, <<400, 0>>, SPEED_CEIL, FALSE, 0),
             Boid(<<20000, 20000>>, <<0, 100>>, SPEED_CEIL, FALSE, 0),
             Boid(<<52104, 34000>>, <<60, 80>>, DensitySpeed(1), FALSE, 0),
             Boid(<<50, 69920>>, <<-60, 80>>, SPEED_CEIL, FALSE, 0) }
      [] OTHER ->
           { Boid(<<52800, 35200>>, <<-100, 0>>, DensitySpeed(2), FALSE, 0) }

\* the states explored for the dynamic obstacle (|vel.x|, |vel.y| <= 1)
DynamicObstacleStates ==
    { Obstacle(<<56000, 40000>>, 4000, TRUE, <<50, -50>>),
      Obstacle(<<50, 30000>>, 3000, TRUE, <<-100, 50>>),
      Obstacle(<<99950, 69975>>, 5000, TRUE, <<100, 50>>) }

\* the dynamic obstacle explored beside the first follower's state: the one
\* in the middle of the world when the follower is there, else the one at the
\* follower's side of the world
DynamicObstacleFor(b) ==
    CHOOSE d \in DynamicObstacleStates :
        IF b.pos[1] >= (WIDTH - 1) * Scale THEN d.pos[1] >= (WIDTH - 1) * Scale
        ELSE IF b.pos[1] > (WIDTH \div 2) * Scale
             THEN d.radius = OBSTACLE_BUFFER * Scale
        ELSE d.pos[1] < Scale

StaticObstacles ==
    << Obstacle(<<20000, 20000>>, 3000, FALSE, Zero),
       Obstacle(<<80000, 50000>>, 5000, FALSE, Zero) >>

InitParams ==
    /\ separation_weight = INIT_SEPARATION_W
    /\ alignment_weight = INIT_ALIGNMENT_W
    /\ cohesion_weight = INIT_COHESION_W
    /\ perception_radius = INIT_PERCEPTION
    /\ avoidance_radius = INIT_AVOIDANCE

InitHistory ==
    /\ crashed = FALSE
    /\ start = [boids |-> boids, obstacles |-> obstacles, params |-> Params]
    /\ seen = <<>>
    /\ done = 0
    /\ probe = <<>>

InitFlock ==
    /\ boids \in [1..NumBoids -> UNION {BoidStates(i) : i \in 1..NumBoids}]
    /\ \A i \in 1..NumBoids : boids[i] \in BoidStates(i)
    /\ obstacles = <<DynamicObstacleFor(boids[LEADER_COUNT + 1])>> \o StaticObstacles

Init ==
    /\ InitFlock
    /\ InitParams
    /\ InitHistory
    /\ stepsLeft = MaxTicks
    /\ keysLeft = MaxKeys

Spec == Init /\ [][Next]_vars

----------------------------------------------------------------------------
(* Claims checked under Spec.                                              *)

\* the boids Boid.update ran for in the last Flock.step
Updated == 1..done

InWorldX(x) == 0 <= x /\ x <= WIDTH * Scale

InWorldY(y) == 0 <= y /\ y <= HEIGHT * Scale

\* C1: Flock.step never halts with an error because a zero-length vector is
\* normalized: every tick runs to completion.
C1_StepNeverRaises == ~crashed

\* C2: after every Boid.update the length of the velocity is at most the boid's
\* current max_speed, also when the density rule lowered max_speed in that tick.
C2_SpeedWithinMax ==
    \A j \in Updated :
        LengthSquared(boids[j].vel) <= boids[j].max_speed * boids[j].max_speed

\* a follower whose max_speed the density rule lowered below its speed in the
\* last tick, so that Boid.update had to shorten its velocity
C2_Witness ==
    \E j \in Updated :
        /\ ~boids[j].leader
        /\ boids[j].max_speed < start.boids[j].max_speed
        /\ LengthSquared(start.boids[j].vel) > boids[j].max_speed * boids[j].max_speed

\* C3 as stated: after every Boid.update, 0 <= x < WIDTH and 0 <= y < HEIGHT,
\* also when the new coordinate lands exactly on WIDTH or HEIGHT.
C3_HalfOpen ==
    \A j \in Updated :
        /\ 0 <= boids[j].pos[1] /\ boids[j].pos[1] < WIDTH * Scale
        /\ 0 <= boids[j].pos[2] /\ boids[j].pos[2] < HEIGHT * Scale

\* C3 amended: after every Boid.update, 0 <= x <= WIDTH and 0 <= y <= HEIGHT; a
\* coordinate that lands exactly on WIDTH or HEIGHT is left there.
C3_Closed ==
    \A j \in Updated : InWorldX(boids[j].pos[1]) /\ InWorldY(boids[j].pos[2])

\* one boid crossed an edge and was wrapped, another landed exactly on WIDTH
C3_Witness ==
    /\ \E j \in Updated : boids[j].pos[1] = WIDTH * Scale
    /\ \E j \in Updated :
          Abs(boids[j].pos[1] - start.boids[j].pos[1]) > MAX_SPEED * Scale

\* whether the last Flock.step moved obstacle k
Moved(k) == obstacles[k].pos /= start.obstacles[k].pos

\* C4 as stated: every obstacle is inside [0, WIDTH] x [0, HEIGHT] at the end
\* of every tick.
C4_InsideAfterTick ==
    \A k \in 1..Len(obstacles) :
        InWorldX(obstacles[k].pos[1]) /\ InWorldY(obstacles[k].pos[2])

\* C4 amended: a dynamic obstacle moves by its velocity; a component of the
\* velocity is negated exactly when the new coordinate is outside the world on
\* that axis; the position is not clamped, so after such a tick the obstacle is
\* outside by less than one step (at most 1 unit) with the velocity pointing
\* back, and a tick that starts outside ends inside; a static obstacle never
\* changes.
C4_Reflection ==
    \A k \in 1..Len(obstacles) :
        LET ob == obstacles[k]
            was == start.obstacles[k]
        IN  IF ~ob.dynamic THEN ob = was /\ ob.vel = Zero
            ELSE /\ Moved(k) =>
                      /\ ob.pos = VAdd(was.pos, was.vel)
                      /\ ob.vel[1] = IF InWorldX(ob.pos[1]) THEN was.vel[1] ELSE -was.vel[1]
                      /\ ob.vel[2] = IF InWorldY(ob.pos[2]) THEN was.vel[2] ELSE -was.vel[2]
                      /\ ~InWorldX(was.pos[1]) => InWorldX(ob.pos[1])
                      /\ ~InWorldY(was.pos[2]) => InWorldY(ob.pos[2])
                 /\ -Scale <= ob.pos[1] /\ ob.pos[1] <= (WIDTH + 1) * Scale
                 /\ -Scale <= ob.pos[2] /\ ob.pos[2] <= (HEIGHT + 1) * Scale
                 /\ ob.pos[1] < 0 => ob.vel[1] > 0
                 /\ ob.pos[1] > WIDTH * Scale => ob.vel[1] < 0
                 /\ ob.pos[2] < 0 => ob.vel[2] > 0
                 /\ ob.pos[2] > HEIGHT * Scale => ob.vel[2] < 0

\* the dynamic obstacle crossed x = 0 in the last tick and was reflected
C4_Witness ==
    \E k \in 1..Len(obstacles) :
        /\ obstacles[k].dynamic
        /\ Moved(k)
        /\ obstacles[k].pos[1] < 0
        /\ obstacles[k].vel[1] = -start.obstacles[k].vel[1]
        /\ obstacles[k].vel[2] = start.obstacles[k].vel[2]

\* the number of other boids nearer than the perception radius to boid j, in
\* the flock as boid j read it
Perceived(j) ==
    Cardinality({i \in 1..Len(boids) :
        /\ i /= j
        /\ LET d == VSub(seen[j].boids[i].pos, seen[j].boids[j].pos)
               r == start.params.pr * Scale
           IN  Abs(d[1]) < r /\ Abs(d[2]) < r /\ Dot(d, d) < r * r})

\* C6: after Flock.step processed a follower its max_speed is
\* max(1.5, 4.0 - n/10), n the number of other boids nearer than
\* perception_radius when it was processed (4.0 for n = 0, the floor 1.5 from
\* n = 25 on); no tick changes a leader's max_speed.
C6_DensitySpeed ==
    /\ \A j \in Updated :
          ~boids[j].leader =>
              boids[j].max_speed
                  = Max((3 * Scale) \div 2, 4 * Scale - (Perceived(j) * Scale) \div 10)
    /\ \A j \in 1..Len(boids) : boids[j].leader => boids[j].max_speed = MAX_SPEED * Scale
    /\ DensitySpeed(0) = 4 * Scale
    /\ \A n \in 25..79 : DensitySpeed(n) = (3 * Scale) \div 2

\* a follower that perceived two neighbours and was slowed to 3.8
C6_Witness ==
    \E j \in Updated :
        /\ ~boids[j].leader
        /\ Perceived(j) = 2
        /\ boids[j].max_speed = 4 * Scale - (2 * Scale) \div 10
        /\ start.boids[j].max_speed /= boids[j].max_speed

----------------------------------------------------------------------------
(* The key handlers explored around one flock.  The parameters start at   *)
(* their construction values or at values that presses of the decrement   *)
(* keys reach from them: a weight of 0.1 (14 presses of Q, 9 of W or E),  *)
(* the radii 15 and 10 (6 presses of T, then 9 of R).                     *)

InitKeys ==
    /\ boids = << Boid(<<52000, 34000>>, <<100, 0>>, MAX_SPEED * Scale, TRUE, 0),
                  Boid(<<53000, 34500>>, <<0, 100>>, MAX_SPEED * Scale, TRUE, 1),
                  Boid(<<52500, 35000>>, <<400, 0>>, SPEED_CEIL, FALSE, 0) >>
    /\ obstacles = <<Obstacle(<<56000, 40000>>, 4000, TRUE, <<50, -50>>)>> \o StaticObstacles
    /\ \E weights \in { <<INIT_SEPARATION_W, INIT_ALIGNMENT_W, INIT_COHESION_W>>,
                         <<WEIGHT_FLOOR + 1, WEIGHT_FLOOR + 1, WEIGHT_FLOOR + 1>> } :
          /\ separation_weight = weights[1]
          /\ alignment_weight = weights[2]
          /\ cohesion_weight = weights[3]
    /\ \E radii \in { <<INIT_PERCEPTION, INIT_AVOIDANCE>>,
                       <<RADIUS_FLOOR + RADIUS_STEP, RADIUS_FLOOR>> } :
          perception_radius = radii[1] /\ avoidance_radius = radii[2]
    /\ InitHistory
    /\ stepsLeft = MaxTicksKeys
    /\ keysLeft = MaxKeysKeys

SpecKeys == InitKeys /\ [][Next]_vars

\* C5: after any sequence of key events and ticks the five parameters are
\* non-negative: a decrement handler stops at its floor (0 for a weight, 10 for
\* a radius) and Flock.step changes none of them.
C5_ParamsClamped ==
    /\ [](/\ separation_weight >= 0
          /\ alignment_weight >= 0
          /\ cohesion_weight >= 0
          /\ perception_radius >= RADIUS_FLOOR
          /\ avoidance_radius >= RADIUS_FLOOR)
    /\ [][stepsLeft' /= stepsLeft => UNCHANGED params]_vars
    /\ [][/\ separation_weight' >= separation_weight - 1
          /\ alignment_weight' >= alignment_weight - 1
          /\ cohesion_weight' >= cohesion_weight - 1
          /\ perception_radius' >= perception_radius - RADIUS_STEP
          /\ avoidance_radius' >= avoidance_radius - RADIUS_STEP]_vars

\* Q was pressed at weight 0.1 and again at the floor, or T at the floor of
\* the avoidance radius (two events, nothing else changed), and a tick ran
C5_Witness ==
    /\ separation_weight = 0
    /\ alignment_weight = WEIGHT_FLOOR + 1
    /\ cohesion_weight = WEIGHT_FLOOR + 1
    /\ perception_radius = RADIUS_FLOOR + RADIUS_STEP
    /\ avoidance_radius = RADIUS_FLOOR
    /\ keysLeft = MaxKeysKeys - 2
    /\ done > 0

\* C10 as stated: in every reachable state avoidance_radius is strictly smaller
\* than perception_radius.
C10_AvoidanceTighter == avoidance_radius < perception_radius

\* C10 amended: avoidance_radius < perception_radius holds at construction
\* (40 < 60) and is kept by Flock.step and by every key except 5 (avoidance + 5)
\* and R (perception - 5); neither of these looks at the other radius.
C10_KeptByOtherKeys ==
    /\ avoidance_radius < perception_radius
    /\ [][(avoidance_radius < perception_radius /\ ~Key5 /\ ~KeyR)
             => avoidance_radius' < perception_radius']_vars

\* keys 4 and T acted and left the avoidance radius tighter
C10_Witness ==
    /\ perception_radius > INIT_PERCEPTION
    /\ avoidance_radius < INIT_AVOIDANCE
    /\ avoidance_radius < perception_radius

----------------------------------------------------------------------------
(* The end-to-end scenario: a flock of two followers at (10, 10) and       *)
(* (15, 10) at rest, every obstacle out of range.                          *)

InitE2E ==
    /\ boids = << Boid(<<10 * Scale, 10 * Scale>>, Zero, MAX_SPEED * Scale, FALSE, 0),
                  Boid(<<15 * Scale, 10 * Scale>>, Zero, MAX_SPEED * Scale, FALSE, 1) >>
    /\ \E d \in DynamicObstacleStates : obstacles = <<d>> \o StaticObstacles
    /\ InitParams
    /\ InitHistory
    /\ stepsLeft = MaxTicks
    /\ keysLeft = MaxKeys + 1

SpecE2E == InitE2E /\ [][Next]_vars

\* the last Flock.step began in the scenario's state
E2EScenario ==
    /\ start.boids = << Boid(<<10 * Scale, 10 * Scale>>, Zero, MAX_SPEED * Scale, FALSE, 0),
                        Boid(<<15 * Scale, 10 * Scale>>, Zero, MAX_SPEED * Scale, FALSE, 1) >>
    /\ start.params.ar = 40
    /\ start.params.pr = 60
    /\ \A j \in 1..2 : Near(start.boids, j, UpdatedObstacles(start.obstacles)) = {}
    /\ stepsLeft = MaxTicks - 1

\* C7: one Flock.step on the scenario completes and leaves both velocities
\* non-zero and pointing away from each other along x.
C7_EndToEnd ==
    E2EScenario =>
        /\ ~crashed
        /\ done = 2
        /\ boids[1].vel[1] < 0
        /\ boids[2].vel[1] > 0

----------------------------------------------------------------------------
(* Flock.separation called directly on a flock of two boids that share one *)
(* velocity.  The offsets are those the fixed-point arithmetic represents  *)
(* exactly (along an axis, or along a 3-4-5 direction at distance 5 or     *)
(* 10).                                                                    *)

SepOffsets ==
    { <<500, 0>>, <<-500, 0>>, <<0, 3900>>, <<0, -100>>, <<300, 400>>,
      <<-300, 400>>, <<300, -400>>, <<-600, -800>>, <<400, 300>>, <<800, -600>> }

SepVelocities ==
    { <<0, 0>>, <<100, 0>>, <<400, 0>>, <<-400, 0>>, <<0, 400>>, <<0, -150>>,
      <<240, 320>>, <<-240, -320>>, <<-240, 320>>, <<320, 240>>, <<228, 304>>,
      <<90, 120>>, <<60, 80>>, <<-380, 0>>, <<399, 0>>, <<200, -300>> }

SepSpeeds == {DensitySpeed(0), DensitySpeed(2), DensitySpeed(25)}

InitSep ==
    /\ \E d \in SepOffsets, v \in SepVelocities, s1 \in SepSpeeds, s2 \in SepSpeeds :
          /\ ~LongerThan(v, s1)
          /\ ~LongerThan(v, s2)
          /\ boids = << Boid(<<50000, 35000>>, v, s1, FALSE, 0),
                        Boid(VAdd(<<50000, 35000>>, d), v, s2, FALSE, 1) >>
    /\ avoidance_radius \in {RADIUS_FLOOR, INIT_AVOIDANCE}
    /\ separation_weight = INIT_SEPARATION_W
    /\ alignment_weight = INIT_ALIGNMENT_W
    /\ cohesion_weight = INIT_COHESION_W
    /\ perception_radius = INIT_PERCEPTION
    /\ \E d \in DynamicObstacleStates : obstacles = <<d>> \o StaticObstacles
    /\ InitHistory
    /\ stepsLeft = 0
    /\ keysLeft = 0

\* self.separation(boid) for both boids
EvalSeparation ==
    /\ probe = <<>>
    /\ probe' = [j \in 1..Len(boids) |-> separation(boids, j, avoidance_radius)]
    /\ UNCHANGED <<boids, obstacles, params, crashed, start, seen, done,
                   stepsLeft, keysLeft>>

NextSep == EvalSeparation

SpecSep == InitSep /\ [][NextSep]_vars

\* the claim's case: two boids at distance 0 < d < avoidance_radius with equal
\* velocities, each no longer than the boid's max_speed, and separation called
SepCase ==
    /\ probe /= <<>>
    /\ Len(boids) = 2
    /\ boids[1].pos /= boids[2].pos
    /\ DistLess(boids[1].pos, boids[2].pos, avoidance_radius * Scale)
    /\ boids[1].vel = boids[2].vel
    /\ \A j \in 1..2 : ~LongerThan(boids[j].vel, boids[j].max_speed)

\* own position - other position
Away(j) == VSub(boids[j].pos, boids[3 - j].pos)

\* boid j already moves straight away from the other one at its max_speed
FullSpeedAway(j) ==
    /\ LengthSquared(boids[j].vel) = boids[j].max_speed * boids[j].max_speed
    /\ boids[j].vel[1] * Away(j)[2] = boids[j].vel[2] * Away(j)[1]
    /\ Dot(boids[j].vel, Away(j)) > 0

\* C8 as stated: the separation force of each of the two boids has a strictly
\* positive dot product with (own position - other position), also when the
\* shared velocity already points away from the other boid at full max_speed.
C8_StrictlyRepulsive ==
    SepCase => \A j \in 1..2 : Dot(probe[j], Away(j)) > 0

\* C8 amended: the dot product is never negative, and it is strictly positive
\* unless the boid already moves straight away from the other one at its full
\* max_speed; then the force is the zero vector and the dot product is 0.
C8_Repulsive ==
    SepCase =>
        \A j \in 1..2 :
            /\ Dot(probe[j], Away(j)) >= 0
            /\ Dot(probe[j], Away(j)) = 0 <=> FullSpeedAway(j)
            /\ FullSpeedAway(j) => probe[j] = Zero

\* one boid moves away at full max_speed and gets no force, the other gets a
\* force away from it
C8_Witness ==
    /\ SepCase
    /\ FullSpeedAway(2)
    /\ probe[2] = Zero
    /\ Dot(probe[1], Away(1)) > 0

=============================================================================
